---- MODULE Spec2Model ----
\* NYC Restaurant Safety Finder: the query client (AgentClient), its request /
\* response models, the CLI option validation, and the Cloud Run backend's
\* /query handler with its query builder, row normalisation and mock response.
\*
\* Representation of Python values:
\*   - a str that the code inspects character by character (cuisine) is a
\*     sequence of one-character strings; None is NoneStr, a one-element
\*     sequence whose element is no character of any string;
\*   - a str that the code only compares, upper-cases or looks up (borough,
\*     grade, dba) is a TLA+ string; None / JSON null / a missing key is "None";
\*   - an untyped JSON scalar (the limit of a payload, a raw latitude) is a
\*     tagged record, see NoneV / IntV / StrV / FloatV;
\*   - a float is an integer number of 1/FloatScale units;
\*   - a date is <<year, month, day>>, its ISO-8601 text the number yyyymmdd,
\*     and 0 stands for an absent ISO date.
EXTENDS Integers, Sequences, FiniteSets, TLC

\* ------------------------------------------------------------------ bounds
MaxCuisineLen == 2      \* longest cuisine filter string enumerated in full
MaxSmallLimit == 2      \* small limits tried are -1 .. MaxSmallLimit

\* ------------------------------------------------- configuration constants
DEFAULT_LIMIT == 100
MAX_LIMIT == 500
CLI_LIMIT_MIN == 1
CLI_LIMIT_MAX == 1000
FloatScale == 10000

\* ------------------------------------------------------- untyped scalars
NoneV == [kind |-> "none"]
IntV(n) == [kind |-> "int", v |-> n]
StrV(s) == [kind |-> "str", s |-> s]
FloatV(x) == [kind |-> "float", v |-> x]

NoneStr == <<"None">>

\* Python truthiness of an optional character string: None and "" are falsy.
TruthyStr(s) == s # NoneStr /\ s # <<>>

\* Python truthiness of an optional name: None and "" are falsy.
TruthyName(n) == n # "None" /\ n # ""

Min(a, b) == IF a < b THEN a ELSE b
Max(a, b) == IF a > b THEN a ELSE b

\* ------------------------------------------------------------ characters
\* str.upper() / str.lower() on one character; characters without case
\* (the LIKE wildcards among them) are unchanged.
UpperChar(c) ==
  CASE c = "a" -> "A" [] c = "c" -> "C" [] c = "d" -> "D" [] c = "e" -> "E"
    [] c = "i" -> "I" [] c = "l" -> "L" [] c = "m" -> "M" [] c = "n" -> "N"
    [] c = "p" -> "P" [] c = "r" -> "R" [] c = "s" -> "S" [] c = "t" -> "T"
    [] c = "z" -> "Z" [] OTHER -> c

LowerChar(c) ==
  CASE c = "A" -> "a" [] c = "C" -> "c" [] c = "D" -> "d" [] c = "E" -> "e"
    [] c = "I" -> "i" [] c = "L" -> "l" [] c = "M" -> "m" [] c = "N" -> "n"
    [] c = "P" -> "p" [] c = "R" -> "r" [] c = "S" -> "s" [] c = "T" -> "t"
    [] c = "Z" -> "z" [] OTHER -> c

Upper(s) == [i \in 1..Len(s) |-> UpperChar(s[i])]
Lower(s) == [i \in 1..Len(s) |-> LowerChar(s[i])]

\* Python's `sub in s` on strings.
Contains(sub, s) ==
  \E i \in 0..(Len(s) - Len(sub)) : SubSeq(s, i + 1, i + Len(sub)) = sub

\* SQL `s LIKE pat`: % matches any run of characters, _ exactly one character.
RECURSIVE Like(_, _)
Like(s, pat) ==
  IF pat = <<>> THEN s = <<>>
  ELSE IF Head(pat) = "%"
       THEN Like(s, Tail(pat)) \/ (s # <<>> /\ Like(Tail(s), pat))
       ELSE /\ s # <<>>
            /\ (Head(pat) = "_" \/ Head(pat) = Head(s))
            /\ Like(Tail(s), Tail(pat))

\* str.upper() on the names the code upper-cases (borough, min_grade).
StrUpper(n) ==
  CASE n = "manhattan" -> "MANHATTAN"
    [] n = "Brooklyn" -> "BROOKLYN"
    [] n = "a" -> "A"
    [] n = "b" -> "B"
    [] n = "z" -> "Z"
    [] OTHER -> n

\* ------------------------------------------------------------ models.py
Borough == {"MANHATTAN", "BROOKLYN", "QUEENS", "BRONX", "STATEN ISLAND"}
Grade == {"A", "B", "C", "P", "Z"}

\* pydantic validation of one element of QueryResponse.restaurants.
Restaurant(r) ==
  /\ r.dba # "None"
  /\ r.boro \in Borough
  /\ r.grade \in Grade \cup {"None"}

\* pydantic construction of a QueryRequest: the request, or the error raised.
QueryRequest(borough, cuisine, min_grade, limit) ==
  IF borough \notin Borough \cup {"None"}
  THEN [error |-> "ValidationError", field |-> "borough"]
  ELSE IF min_grade \notin Grade \cup {"None"}
  THEN [error |-> "ValidationError", field |-> "min_grade"]
  ELSE [borough |-> borough, cuisine |-> cuisine,
        min_grade |-> min_grade, limit |-> limit]

\* request_data.model_dump(exclude_none=True) as the JSON body of the POST:
\* None fields are left out, so the backend's payload.get() finds None.
model_dump(request) ==
  [borough |-> request.borough, cuisine |-> request.cuisine,
   min_grade |-> request.min_grade, limit |-> IntV(request.limit)]

\* -------------------------------------------- agent_client.py: mock data
mock_restaurants == <<
  [dba |-> "Joe's Pizza", boro |-> "MANHATTAN",
   cuisine_description |-> <<"P", "i", "z", "z", "a">>,
   grade |-> "A", inspection_date |-> 20231015,
   latitude |-> FloatV(407589), longitude |-> FloatV(-739851)],
  [dba |-> "Brooklyn Deli", boro |-> "BROOKLYN",
   cuisine_description |->
     <<"D", "e", "l", "i", "c", "a", "t", "e", "s", "s", "e", "n">>,
   grade |-> "B", inspection_date |-> 20231014,
   latitude |-> FloatV(406892), longitude |-> FloatV(-739442)],
  [dba |-> "Queens Bistro", boro |-> "QUEENS",
   cuisine_description |-> <<"A", "m", "e", "r", "i", "c", "a", "n">>,
   grade |-> "A", inspection_date |-> 20231013,
   latitude |-> FloatV(407282), longitude |-> FloatV(-739442)] >>

grade_order(g) ==
  CASE g = "A" -> 1 [] g = "B" -> 2 [] g = "C" -> 3 [] g = "P" -> 4
    [] g = "Z" -> 5 [] OTHER -> 5

\* The loop body of _get_mock_data: TRUE when the restaurant is appended,
\* FALSE when one of the three `continue` statements skips it.
mock_keeps(request, restaurant) ==
  /\ ~(request.borough # "None" /\ restaurant.boro # request.borough)
  /\ ~(/\ TruthyStr(request.cuisine)
       /\ ~Contains(Lower(request.cuisine),
                    Lower(restaurant.cuisine_description)))
  /\ ~(/\ request.min_grade # "None"
       /\ restaurant.grade # "None"
       /\ grade_order(restaurant.grade) > grade_order(request.min_grade))

\* Python's seq[:n], n of either sign.
SliceTo(seq, n) ==
  IF n >= 0 THEN SubSeq(seq, 1, Min(n, Len(seq)))
  ELSE SubSeq(seq, 1, Max(0, Len(seq) + n))

\* filtered_restaurants with each kept restaurant put at the front of the
\* list (filtered.insert(0, restaurant)) instead of appended.
filtered_restaurants_reversed(request) ==
  LET kept == SelectSeq(mock_restaurants, LAMBDA r : mock_keeps(request, r))
  IN [i \in 1..Len(kept) |-> kept[Len(kept) + 1 - i]]

filtered_restaurants(request) ==
  SelectSeq(mock_restaurants, LAMBDA r : mock_keeps(request, r))

_get_mock_data(request) ==
  [kind |-> "envelope",
   restaurants |-> SliceTo(filtered_restaurants(request), request.limit),
   total_count |-> Len(filtered_restaurants(request)),
   query_info |->
     [mock_data |-> "True",
      filters_applied |->
        [borough |-> request.borough, cuisine |-> request.cuisine,
         min_grade |-> request.min_grade, limit |-> NoneV],
      table |-> "None"]]

\* ------------------------------------------- cloud_run_agent.py: builder
BQ_TABLE == "bigquery-public-data.new_york.restaurant_grades"

GRADE_LADDER(g) ==
  CASE g = "A" -> <<"A">>
    [] g = "B" -> <<"A", "B">>
    [] g = "C" -> <<"A", "B", "C">>
    [] OTHER -> <<>>

Digits == {"0", "1", "2", "3", "4", "5", "6", "7", "8", "9"}

DigitVal(c) ==
  CASE c = "0" -> 0 [] c = "1" -> 1 [] c = "2" -> 2 [] c = "3" -> 3
    [] c = "4" -> 4 [] c = "5" -> 5 [] c = "6" -> 6 [] c = "7" -> 7
    [] c = "8" -> 8 [] c = "9" -> 9 [] OTHER -> 0

RECURSIVE DigitsVal(_)
DigitsVal(s) ==
  IF s = <<>> THEN 0
  ELSE 10 * DigitsVal(SubSeq(s, 1, Len(s) - 1)) + DigitVal(s[Len(s)])

AllDigits(s) == s # <<>> /\ \A i \in 1..Len(s) : s[i] \in Digits

\* int(value): the integer, or NoneV when int() raises.
\* A float is truncated toward zero; a text must be an optionally signed
\* run of digits.
IntOf(value) ==
  CASE value.kind = "int" -> IntV(value.v)
    [] value.kind = "float" ->
         IntV(IF value.v >= 0 THEN value.v \div FloatScale
              ELSE 0 - ((0 - value.v) \div FloatScale))
    [] value.kind = "str" ->
         IF AllDigits(value.s) THEN IntV(DigitsVal(value.s))
         ELSE IF value.s # <<>> /\ Head(value.s) = "-" /\ AllDigits(Tail(value.s))
         THEN IntV(0 - DigitsVal(Tail(value.s)))
         ELSE NoneV
    [] OTHER -> NoneV

_coerce_limit(value) ==
  IF value.kind = "none" THEN DEFAULT_LIMIT
  ELSE IF IntOf(value) = NoneV THEN DEFAULT_LIMIT
  ELSE Max(1, Min(IntOf(value).v, MAX_LIMIT))

\* build_where with the borough written into the predicate text instead of
\* being bound as @borough.
build_where_interpolated(payload) ==
  <<"1=1">>
  \o (IF TruthyName(payload.borough)
      THEN <<"UPPER(boro) = '" \o StrUpper(payload.borough) \o "'">>
      ELSE <<>>)
  \o (IF TruthyStr(payload.cuisine)
      THEN <<"UPPER(cuisine_description) LIKE @cuisine">> ELSE <<>>)
  \o (IF TruthyName(payload.min_grade)
         /\ GRADE_LADDER(StrUpper(payload.min_grade)) # <<>>
      THEN <<"grade IN UNNEST(@grades)">> ELSE <<>>)

\* The WHERE list and the bound parameters. An unbound parameter is "None"
\* (borough), NoneStr (cuisine) or the empty array (grades).
build_where(payload) ==
  <<"1=1">>
  \o (IF TruthyName(payload.borough)
      THEN <<"UPPER(boro) = @borough">> ELSE <<>>)
  \o (IF TruthyStr(payload.cuisine)
      THEN <<"UPPER(cuisine_description) LIKE @cuisine">> ELSE <<>>)
  \o (IF TruthyName(payload.min_grade)
         /\ GRADE_LADDER(StrUpper(payload.min_grade)) # <<>>
      THEN <<"grade IN UNNEST(@grades)">> ELSE <<>>)

\* build_params binding the borough as received, without upper().
build_params_raw(payload) ==
  [borough |-> IF TruthyName(payload.borough)
               THEN payload.borough ELSE "None",
   cuisine |-> IF TruthyStr(payload.cuisine)
               THEN <<"%">> \o Upper(payload.cuisine) \o <<"%">>
               ELSE NoneStr,
   grades |-> IF TruthyName(payload.min_grade)
              THEN GRADE_LADDER(StrUpper(payload.min_grade)) ELSE <<>>,
   limit |-> _coerce_limit(payload.limit)]

build_params(payload) ==
  [borough |-> IF TruthyName(payload.borough)
               THEN StrUpper(payload.borough) ELSE "None",
   cuisine |-> IF TruthyStr(payload.cuisine)
               THEN <<"%">> \o Upper(payload.cuisine) \o <<"%">>
               ELSE NoneStr,
   grades |-> IF TruthyName(payload.min_grade)
              THEN GRADE_LADDER(StrUpper(payload.min_grade)) ELSE <<>>,
   limit |-> _coerce_limit(payload.limit)]

_build_query_and_params(payload) ==
  [query |-> [from |-> BQ_TABLE, where |-> build_where(payload),
              order_by |-> "inspection_date DESC", limit |-> "@limit"],
   params |-> build_params(payload),
   applied |-> [borough |-> payload.borough, cuisine |-> payload.cuisine,
                min_grade |-> payload.min_grade,
                limit |-> IntV(_coerce_limit(payload.limit))]]

\* ------------------------------------- the warehouse evaluating the query
\* One predicate of the WHERE list on one row; a comparison with NULL is not
\* true, so the row is not selected.
eval_predicate(p, row, params) ==
  CASE p = "1=1" -> TRUE
    [] p = "UPPER(boro) = @borough" ->
         row.boro # "None" /\ StrUpper(row.boro) = params.borough
    [] p = "UPPER(cuisine_description) LIKE @cuisine" ->
         /\ row.cuisine_description # NoneStr
         /\ Like(Upper(row.cuisine_description), params.cuisine)
    [] p = "grade IN UNNEST(@grades)" ->
         /\ row.grade # "None"
         /\ \E i \in 1..Len(params.grades) : params.grades[i] = row.grade
    [] OTHER -> FALSE

where_selects(where, row, params) ==
  \A i \in 1..Len(where) : eval_predicate(where[i], row, params)

IsoFormat(d) == d[1] * 10000 + d[2] * 100 + d[3]

\* Sort key of ORDER BY inspection_date DESC: NULL dates come last.
DateKey(row) ==
  IF row.inspection_date = <<>> THEN 0 ELSE IsoFormat(row.inspection_date)

\* The sequences of at most n rows the warehouse may return from the set
\* `rows` under ORDER BY inspection_date DESC LIMIT n; rows of equal date
\* come in any order.
RECURSIVE OrderedResults(_, _)
OrderedResults(rows, n) ==
  IF rows = {} \/ n <= 0 THEN {<<>>}
  ELSE UNION {{<<r>> \o s : s \in OrderedResults(rows \ {r}, n - 1)} :
              r \in {x \in rows : \A y \in rows : DateKey(x) >= DateKey(y)}}

\* The result sets the query can return from `tbl`.
run_query(q, tbl) ==
  OrderedResults({r \in tbl : where_selects(q.query.where, r, q.params)},
                 q.params.limit)

\* ---------------------------------------- cloud_run_agent.py: normaliser
\* float(x): the float, or NoneV when float() raises.
FloatOf(x) ==
  CASE x.kind = "float" -> x
    [] x.kind = "int" -> FloatV(x.v * FloatScale)
    [] x.kind = "str" ->
         IF AllDigits(x.s) THEN FloatV(DigitsVal(x.s) * FloatScale) ELSE NoneV
    [] OTHER -> NoneV

\* TRUE when building the dict of this row raises (float() of a present,
\* non-numeric latitude or longitude).
row_raises(row) ==
  \/ row.latitude.kind # "none" /\ FloatOf(row.latitude) = NoneV
  \/ row.longitude.kind # "none" /\ FloatOf(row.longitude) = NoneV

normalize_row(row) ==
  [dba |-> row.dba, boro |-> row.boro,
   cuisine_description |-> row.cuisine_description,
   grade |-> row.grade,
   inspection_date |-> IF row.inspection_date # <<>>
                       THEN IsoFormat(row.inspection_date) ELSE 0,
   latitude |-> IF row.latitude.kind # "none"
                THEN FloatOf(row.latitude) ELSE NoneV,
   longitude |-> IF row.longitude.kind # "none"
                 THEN FloatOf(row.longitude) ELSE NoneV]

live_response(results, applied) ==
  [restaurants |-> [i \in 1..Len(results) |-> normalize_row(results[i])],
   total_count |-> Len(results),
   query_info |-> [mock_data |-> "None", filters_applied |-> applied,
                   table |-> BQ_TABLE]]

\* _mock_response without the mock_data key in query_info.
_mock_response_unflagged(payload) ==
  [restaurants |-> << mock_restaurants[1] >>,
   total_count |-> 1,
   query_info |-> [mock_data |-> "None", filters_applied |-> payload,
                   table |-> BQ_TABLE]]

_mock_response(payload) ==
  [restaurants |-> << mock_restaurants[1] >>,
   total_count |-> 1,
   query_info |-> [mock_data |-> "True", filters_applied |-> payload,
                   table |-> BQ_TABLE]]

\* ------------------------------------------------------------ input sets
CuisineChars == {"p", "I", "_", "%"}

StringsUpTo(n) == UNION {[1..k -> CuisineChars] : k \in 0..n}

CuisineInputs ==
  {NoneStr, <<"p", "I", "Z">>} \cup StringsUpTo(MaxCuisineLen)

LimitInputs == (-1..MaxSmallLimit) \cup {DEFAULT_LIMIT, CLI_LIMIT_MAX}

\* Arguments a Python caller passes to AgentClient.query_restaurants.
CallBoroughs == Borough \cup {"None", "manhattan"}
CallGrades == Grade \cup {"None", "a"}

\* Option texts given to the `search` command.
CliBoroughs == {"None", "manhattan", "Brooklyn", "QUEENS", "NARNIA"}
CliGrades == {"None", "A", "C", "Z", "a"}
CliLimits == {0, CLI_LIMIT_MIN, MAX_LIMIT + 1, CLI_LIMIT_MAX, CLI_LIMIT_MAX + 1}

\* JSON bodies another HTTP caller posts to /query.
RawBoroughs == {"None", "manhattan", "NARNIA"}
RawCuisines == {NoneStr, <<"p">>}
RawGrades == {"None", "a", "B", "Z", "X"}
RawLimits ==
  {NoneV, IntV(0), IntV(MaxSmallLimit), IntV(MAX_LIMIT + 1),
   StrV(<<"7">>), StrV(<<"-", "3">>), StrV(<<"a", "b", "c">>),
   FloatV(25000)}

\* Rows of the warehouse table (raw column values): rows every consumer
\* accepts (two of them inspected on the same day), and rows with a NULL
\* borough, an unlisted grade, a latitude that is no number, a NULL name.
GoodRows == {
  [dba |-> "Lombardi's", boro |-> "MANHATTAN",
   cuisine_description |-> <<"P", "i", "z", "z", "a">>, grade |-> "A",
   inspection_date |-> <<2023, 11, 2>>,
   latitude |-> FloatV(407216), longitude |-> FloatV(-739956)],
  [dba |-> "Village Grill", boro |-> "MANHATTAN",
   cuisine_description |-> <<"A", "m", "e", "r", "i", "c", "a", "n">>,
   grade |-> "C", inspection_date |-> <<2023, 10, 30>>,
   latitude |-> NoneV, longitude |-> NoneV],
  [dba |-> "Astoria Diner", boro |-> "QUEENS",
   cuisine_description |-> <<"D", "i", "n", "e", "r">>, grade |-> "P",
   inspection_date |-> <<>>,
   latitude |-> StrV(<<"4", "0">>), longitude |-> IntV(-73)],
  [dba |-> "Corner Deli", boro |-> "BROOKLYN",
   cuisine_description |-> <<"D", "e", "l", "i">>, grade |-> "A",
   inspection_date |-> <<2023, 10, 30>>,
   latitude |-> NoneV, longitude |-> NoneV] }

BadRows == {
  [dba |-> "Pop-up Stand", boro |-> "None",
   cuisine_description |-> NoneStr, grade |-> "None",
   inspection_date |-> <<2023, 11, 1>>,
   latitude |-> NoneV, longitude |-> NoneV],
  [dba |-> "Bronx Slice", boro |-> "BRONX",
   cuisine_description |-> <<"P", "i", "z", "z", "a">>, grade |-> "N",
   inspection_date |-> <<2023, 10, 30>>,
   latitude |-> NoneV, longitude |-> NoneV],
  [dba |-> "Atlantic Deli", boro |-> "BROOKLYN",
   cuisine_description |-> <<"D", "e", "l", "i">>, grade |-> "B",
   inspection_date |-> <<2023, 11, 1>>,
   latitude |-> StrV(<<"n", "a", "n", "e">>), longitude |-> NoneV],
  [dba |-> "None", boro |-> "STATEN ISLAND",
   cuisine_description |-> <<"D", "e", "l", "i">>, grade |-> "A",
   inspection_date |-> <<2023, 10, 29>>,
   latitude |-> NoneV, longitude |-> NoneV] }

\* The contents BQ_TABLE may have, by name, and the rows of each.
Tables == {"clean", "dirty"}

Rows(name) ==
  CASE name = "clean" -> GoodRows
    [] name = "dirty" -> GoodRows \cup BadRows
    [] OTHER -> {}

\* ------------------------------------------------------------------ state
VARIABLES
  bq_client,   \* backend: TRUE when bigquery.Client() was constructed
  table,       \* the contents of BQ_TABLE, see Rows; "none" without a client
  pc,          \* position of the call in progress
  request,     \* the client's QueryRequest (NoRequest for a bare HTTP caller)
  payload,     \* JSON body of the POST in flight
  response,    \* HTTP response in flight
  exception,   \* RequestException caught by the client
  result,      \* what AgentClient.query_restaurants gave its caller
  path,        \* which code produced the envelope: live / backend_mock / client_mock
  failure,     \* how the live path failed, "none" if it did not
  results,     \* the rows the warehouse returned to the handler in this call
  attempts,    \* POSTs the client has sent in this call
  mocks        \* mock responses built in this call

vars == <<bq_client, table, pc, request, payload, response, exception,
          result, path, failure, results, attempts, mocks>>

NoRequest == [none |-> TRUE]
NoPayload == [none |-> TRUE]
NoResponse == [status |-> 0]
NoResult == [kind |-> "none"]

Init ==
  /\ bq_client \in BOOLEAN
  /\ table \in Tables \cup {"none"}
  /\ bq_client <=> table # "none"
  /\ pc = "idle"
  /\ request = NoRequest
  /\ payload = NoPayload
  /\ response = NoResponse
  /\ exception = "None"
  /\ result = NoResult
  /\ path = "none"
  /\ failure = "none"
  /\ results = <<>>
  /\ attempts = 0
  /\ mocks = 0

\* --------------------------------------------------------------- client
\* AgentClient.query_restaurants up to the POST: builds the QueryRequest.
ClientCall(borough, cuisine, min_grade, limit) ==
  LET request_data == QueryRequest(borough, cuisine, min_grade, limit) IN
  /\ pc = "idle"
  /\ IF "error" \in DOMAIN request_data
     THEN /\ result' = [kind |-> "raised", error |-> request_data.error]
          /\ pc' = "done"
          /\ UNCHANGED request
     ELSE /\ request' = request_data
          /\ pc' = "posting"
          /\ UNCHANGED result
  /\ UNCHANGED <<bq_client, table, payload, response, exception, path,
                 failure, results, attempts, mocks>>

query_restaurants ==
  /\ pc = "idle"
  /\ \E borough \in CallBoroughs, cuisine \in CuisineInputs,
        min_grade \in CallGrades, limit \in LimitInputs :
       ClientCall(borough, cuisine, min_grade, limit)

\* typer's conversion of the `search` options.
cli_borough_ok(text) == text = "None" \/ StrUpper(text) \in Borough
cli_grade_ok(text) == text = "None" \/ text \in Grade
cli_limit_ok(n) == CLI_LIMIT_MIN <= n /\ n <= CLI_LIMIT_MAX

\* The `search` command: option validation, then client.query_restaurants.
search ==
  /\ pc = "idle"
  /\ \E borough \in CliBoroughs, cuisine \in CuisineInputs,
        min_grade \in CliGrades, limit \in CliLimits :
       IF /\ cli_borough_ok(borough)
          /\ cli_grade_ok(min_grade)
          /\ cli_limit_ok(limit)
       THEN ClientCall(IF borough = "None" THEN "None" ELSE StrUpper(borough),
                       cuisine, min_grade, limit)
       ELSE /\ pc' = "usage_error"
            /\ UNCHANGED <<bq_client, table, request, payload, response,
                           exception, result, path, failure, results,
                           attempts, mocks>>

\* post with a retry: after a ConnectionError or Timeout the client posts
\* once more before it gives up.
post_retrying ==
  /\ pc = "posting"
  /\ \E outcome \in {"delivered", "ConnectionError", "Timeout", "Unavailable"} :
       CASE outcome = "delivered" ->
              /\ payload' = model_dump(request)
              /\ pc' = "backend"
              /\ UNCHANGED <<response, exception, failure>>
         [] outcome = "Unavailable" ->
              /\ response' = [status |-> 503]
              /\ pc' = "responded"
              /\ failure' = "HTTPError"
              /\ UNCHANGED <<payload, exception>>
         [] OTHER ->
              IF attempts < 1
              THEN /\ pc' = "posting"
                   /\ UNCHANGED <<payload, response, exception, failure>>
              ELSE /\ exception' = outcome
                   /\ failure' = outcome
                   /\ pc' = "except"
                   /\ UNCHANGED <<payload, response>>
  /\ attempts' = attempts + 1
  /\ UNCHANGED <<bq_client, table, request, result, path, results, mocks>>

\* self.session.post(...): the request reaches the handler, or requests
\* raises, or the platform answers with an error status of its own.
post ==
  /\ pc = "posting"
  /\ \E outcome \in {"delivered", "ConnectionError", "Timeout", "Unavailable"} :
       CASE outcome = "delivered" ->
              /\ payload' = model_dump(request)
              /\ pc' = "backend"
              /\ UNCHANGED <<response, exception, failure>>
         [] outcome = "Unavailable" ->
              /\ response' = [status |-> 503]
              /\ pc' = "responded"
              /\ failure' = "HTTPError"
              /\ UNCHANGED <<payload, exception>>
         [] OTHER ->
              /\ exception' = outcome
              /\ failure' = outcome
              /\ pc' = "except"
              /\ UNCHANGED <<payload, response>>
  /\ attempts' = attempts + 1
  /\ UNCHANGED <<bq_client, table, request, result, path, results, mocks>>

\* Another HTTP caller posts a JSON body to /query.
http_post ==
  /\ pc = "idle"
  /\ \E borough \in RawBoroughs, cuisine \in RawCuisines,
        min_grade \in RawGrades, limit \in RawLimits :
       payload' = [borough |-> borough, cuisine |-> cuisine,
                   min_grade |-> min_grade, limit |-> limit]
  /\ pc' = "backend"
  /\ UNCHANGED <<bq_client, table, request, response, exception, result,
                 path, failure, results, attempts, mocks>>

\* -------------------------------------------------------------- backend
\* The /query handler.
backend_query ==
  /\ pc = "backend"
  /\ pc' = "responded"
  /\ IF ~bq_client
     THEN /\ response' = [status |-> 200, body |-> _mock_response(payload)]
          /\ path' = "backend_mock"
          /\ failure' = "NoClient"
          /\ mocks' = mocks + 1
          /\ UNCHANGED results
     ELSE LET q == _build_query_and_params(payload) IN
          \/ /\ response' = [status |-> 500]      \* bq_client.query raises
             /\ failure' = "ExecutionError"
             /\ UNCHANGED <<path, results, mocks>>
          \/ \E rows \in run_query(q, Rows(table)) :
               /\ results' = rows
               /\ UNCHANGED mocks
               /\ IF \E i \in 1..Len(rows) : row_raises(rows[i])
                  THEN /\ response' = [status |-> 500]
                       /\ failure' = "NormalizationError"
                       /\ UNCHANGED path
                  ELSE /\ response' =
                            [status |-> 200,
                             body |-> live_response(rows, q.applied)]
                       /\ path' = "live"
                       /\ UNCHANGED failure
  /\ UNCHANGED <<bq_client, table, request, payload, exception, result,
                 attempts>>

\* ------------------------------------------------- client, after the POST
\* receive without response.raise_for_status(): the body of an error response
\* goes to QueryResponse(**data), which raises for want of its fields.
receive_unchecked ==
  /\ pc = "responded"
  /\ request # NoRequest
  /\ pc' = "done"
  /\ IF response.status >= 400
     THEN result' = [kind |-> "raised", error |-> "ValidationError"]
     ELSE IF \A i \in 1..Len(response.body.restaurants) :
                Restaurant(response.body.restaurants[i])
     THEN result' = [kind |-> "envelope",
                     restaurants |-> response.body.restaurants,
                     total_count |-> response.body.total_count,
                     query_info |-> response.body.query_info]
     ELSE result' = [kind |-> "raised", error |-> "ValidationError"]
  /\ UNCHANGED <<bq_client, table, request, payload, response, exception,
                 path, failure, results, attempts, mocks>>

\* response.raise_for_status(); response.json(); QueryResponse(**data).
receive ==
  /\ pc = "responded"
  /\ request # NoRequest
  /\ IF response.status >= 400
     THEN /\ exception' = "HTTPError"
          /\ pc' = "except"
          /\ UNCHANGED result
     ELSE /\ pc' = "done"
          /\ UNCHANGED exception
          /\ IF \A i \in 1..Len(response.body.restaurants) :
                  Restaurant(response.body.restaurants[i])
             THEN result' = [kind |-> "envelope",
                             restaurants |-> response.body.restaurants,
                             total_count |-> response.body.total_count,
                             query_info |-> response.body.query_info]
             ELSE result' = [kind |-> "raised", error |-> "ValidationError"]
  /\ UNCHANGED <<bq_client, table, request, payload, response, path,
                 failure, results, attempts, mocks>>

\* except requests.exceptions.RequestException: return self._get_mock_data(...)
except_handler ==
  /\ pc = "except"
  /\ result' = _get_mock_data(request)
  /\ path' = "client_mock"
  /\ pc' = "done"
  /\ mocks' = mocks + 1
  /\ UNCHANGED <<bq_client, table, request, payload, response, exception,
                 failure, results, attempts>>

\* The call is over; the process is ready for the next one.
finish ==
  /\ \/ pc \in {"done", "usage_error"}
     \/ pc = "responded" /\ request = NoRequest
  /\ pc' = "idle"
  /\ request' = NoRequest
  /\ payload' = NoPayload
  /\ response' = NoResponse
  /\ exception' = "None"
  /\ result' = NoResult
  /\ path' = "none"
  /\ failure' = "none"
  /\ results' = <<>>
  /\ attempts' = 0
  /\ mocks' = 0
  /\ UNCHANGED <<bq_client, table>>

Next ==
  \/ query_restaurants
  \/ search
  \/ post
  \/ http_post
  \/ backend_query
  \/ receive
  \/ except_handler
  \/ finish

Spec == Init /\ [][Next]_vars

\* A call in progress is one thread of control running to its return: each
\* step of it is taken once it can be.
FairSpec ==
  /\ Spec
  /\ WF_vars(post)
  /\ WF_vars(backend_query)
  /\ WF_vars(receive)
  /\ WF_vars(except_handler)

\* ------------------------------------------------------------ properties
MockRecords == {mock_restaurants[i] : i \in 1..Len(mock_restaurants)}

Records(env) == {env.restaurants[i] : i \in 1..Len(env.restaurants)}

\* The client call has returned or raised.
Returned == pc = "done" /\ request # NoRequest

\* C1: whenever the live path failed (connection error, timeout, error
\* status, warehouse execution error, no warehouse client), the caller of
\* AgentClient.query_restaurants gets an envelope, not an error; the envelope
\* comes from a mock responder, is flagged as mock data and holds records of
\* the mock dataset only.
C1_FailureYieldsMockEnvelope ==
  (Returned /\ failure # "none") =>
    /\ result.kind = "envelope"
    /\ path \in {"client_mock", "backend_mock"}
    /\ result.query_info.mock_data = "True"
    /\ Records(result) \subseteq MockRecords

C1_Witness ==
  /\ Returned
  /\ failure = "ExecutionError"
  /\ result.kind = "envelope"
  /\ Records(result) # {}

\* C2: with a valid Filter, AgentClient.query_restaurants always returns an
\* envelope and never raises, whatever the backend does.
C2_ValidFilterNeverRaises ==
  Returned => result.kind = "envelope"

\* C3: in every envelope, the one the backend sends and the one the client
\* returns, mock_data is true exactly when a mock path produced it: a mock
\* envelope holds only records of the mock dataset and is flagged, a live
\* envelope holds only warehouse rows and is not flagged.
C3_MockFlagIffMockPath ==
  /\ result.kind = "envelope" =>
       /\ result.query_info.mock_data = "True"
            <=> path \in {"client_mock", "backend_mock"}
       /\ result.query_info.mock_data = "True"
            => Records(result) \subseteq MockRecords
       /\ result.query_info.mock_data # "True"
            => Records(result) \cap MockRecords = {}
  /\ response.status = 200 =>
       /\ response.body.query_info.mock_data = "True" <=> path = "backend_mock"
       /\ response.body.query_info.mock_data = "True"
            => Records(response.body) \subseteq MockRecords
       /\ response.body.query_info.mock_data # "True"
            => Records(response.body) \cap MockRecords = {}

C3_Witness ==
  /\ Returned
  /\ result.kind = "envelope"
  /\ path = "backend_mock"
  /\ result.query_info.mock_data = "True"

\* C4: the number of records the caller gets is at most the limit of the
\* Filter it passed, on every path and for every limit the Filter can hold.
C4_LimitRespected ==
  (Returned /\ result.kind = "envelope") =>
    Len(result.restaurants) <= request.limit

\* The effective limit the documentation gives for a raw limit input.
C5_Expected(value) ==
  IF value.kind = "none" \/ IntOf(value) = NoneV THEN DEFAULT_LIMIT
  ELSE IF IntOf(value).v <= 0 THEN 1
  ELSE IF IntOf(value).v > MAX_LIMIT THEN MAX_LIMIT
  ELSE IntOf(value).v

\* C5: wherever a Filter is constructed its limit is normalised: the
\* backend's effective limit is the default for a missing or non-integer
\* input, 1 for an input below 1, the ceiling for an input above it, the
\* input otherwise; and the limit of every client-side Filter (QueryRequest,
\* also when built from the CLI option) lies in 1 .. MAX_LIMIT.
C5_LimitNormalized ==
  /\ payload # NoPayload =>
       _coerce_limit(payload.limit) = C5_Expected(payload.limit)
  /\ request # NoRequest =>
       1 <= request.limit /\ request.limit <= MAX_LIMIT

\* C6: in every envelope, the backend's and the client's, total_count is the
\* number of records the envelope holds.
C6_TotalCountIsLength ==
  /\ result.kind = "envelope" => result.total_count = Len(result.restaurants)
  /\ response.status = 200 =>
       response.body.total_count = Len(response.body.restaurants)

\* The filter semantics of the documentation on one record: borough equality,
\* case-insensitive cuisine substring, grade within the ladder of min_grade.
C7_Satisfies(filter, r) ==
  /\ TruthyName(filter.borough) => r.boro = StrUpper(filter.borough)
  /\ TruthyStr(filter.cuisine) =>
       Contains(Lower(filter.cuisine), Lower(r.cuisine_description))
  /\ TruthyName(filter.min_grade) =>
       \E i \in 1..Len(GRADE_LADDER(StrUpper(filter.min_grade))) :
         GRADE_LADDER(StrUpper(filter.min_grade))[i] = r.grade

\* C7: every record of a mock response, the client's and the backend's,
\* satisfies the Filter of the query (borough, cuisine, minimum grade), and
\* the response holds at most limit records.
C7_MockAppliesFilter ==
  /\ (Returned /\ result.kind = "envelope"
        /\ path \in {"client_mock", "backend_mock"}) =>
       /\ \A r \in Records(result) : C7_Satisfies(request, r)
       /\ Len(result.restaurants) <= request.limit
  /\ (response.status = 200 /\ path = "backend_mock") =>
       /\ \A r \in Records(response.body) : C7_Satisfies(payload, r)
       /\ Len(response.body.restaurants) <= _coerce_limit(payload.limit)

\* A record of every possible grade, the absent grade among them.
C8_RecordGraded(g) == [mock_restaurants[1] EXCEPT !.grade = g]

\* What the documentation lets a minimum-grade filter match.
C8_LadderAllows(min_grade, g) ==
  /\ g \notin {"None", "P", "Z"}
  /\ min_grade = "A" => g = "A"
  /\ min_grade = "B" => g \in {"A", "B"}
  /\ min_grade = "C" => g \in {"A", "B", "C"}

\* C8: for the Filter of every query that sets min_grade, a record of any
\* grade that the mock filter predicate keeps, or that the Query Builder's
\* WHERE list selects, has a grade the ladder of min_grade allows: never an
\* absent grade, never P or Z.
C8_MinGradeFollowsLadder ==
  /\ (request # NoRequest /\ request.min_grade # "None") =>
       \A g \in Grade \cup {"None"} :
         mock_keeps(request, [C8_RecordGraded(g) EXCEPT
                                !.boro = IF request.borough = "None"
                                         THEN @ ELSE request.borough,
                                !.cuisine_description =
                                   IF TruthyStr(request.cuisine)
                                   THEN request.cuisine ELSE @])
           => C8_LadderAllows(request.min_grade, g)
  /\ (payload # NoPayload /\ TruthyName(payload.min_grade)) =>
       \A g \in Grade \cup {"None"} :
         where_selects(<<"1=1">> \o
                         SelectSeq(build_where(payload),
                                   LAMBDA p : p = "grade IN UNNEST(@grades)"),
                       C8_RecordGraded(g), build_params(payload))
           => C8_LadderAllows(StrUpper(payload.min_grade), g)

\* C9: for the Filter of every client query, the mock filter predicate and
\* the Query Builder's WHERE list (built from the body the client posts)
\* select the same records of the mock dataset.
C9_MockMatchesBuilder ==
  request # NoRequest =>
    {r \in MockRecords : mock_keeps(request, r)}
      = {r \in MockRecords :
           where_selects(build_where(model_dump(request)), r,
                         build_params(model_dump(request)))}

\* C10: no query is in progress, at the client or at the backend, with a
\* minimum grade of P or Z.
C10_NoPendingGradeFilter ==
  /\ request # NoRequest => request.min_grade \notin {"P", "Z"}
  /\ payload # NoPayload => StrUpper(payload.min_grade) \notin {"P", "Z"}

\* C11: wherever a Filter is constructed, a borough or grade text converts
\* to its enumeration member whatever its case (so every case variant of the
\* borough and the grade of the Filter in progress is accepted by the CLI
\* and by QueryRequest), and no query is in progress, at the client or at
\* the backend, whose borough is outside the five boroughs.
C11_OnlyEnumeratedBoroughs ==
  /\ request # NoRequest =>
       /\ request.borough \in Borough \cup {"None"}
       /\ \A text \in CliBoroughs \cup CallBoroughs :
            StrUpper(text) = request.borough =>
              /\ cli_borough_ok(text)
              /\ "error" \notin DOMAIN QueryRequest(text, NoneStr, "None", 1)
       /\ \A text \in CliGrades \cup CallGrades :
            StrUpper(text) = request.min_grade =>
              /\ cli_grade_ok(text)
              /\ "error" \notin DOMAIN QueryRequest("None", NoneStr, text, 1)
  /\ (payload # NoPayload /\ TruthyName(payload.borough)) =>
       StrUpper(payload.borough) \in Borough

\* C12: normalising latitude and longitude never raises: the handler never
\* fails on a row's coordinates, and every record of a live response has a
\* float or an absent value for each.
C12_CoordinatesNeverRaise ==
  /\ failure # "NormalizationError"
  /\ (response.status = 200 /\ path = "live") =>
       \A r \in Records(response.body) :
         /\ r.latitude.kind \in {"float", "none"}
         /\ r.longitude.kind \in {"float", "none"}

\* A row whose normalisation does not raise and whose record the client's
\* validation accepts.
C13_WellFormed(row) ==
  ~row_raises(row) /\ Restaurant(normalize_row(row))

\* C13: when the warehouse returned a result set holding a malformed row (one
\* that is not well formed), the caller still gets a live envelope (mock_data
\* not true) that holds the record of every other row of the result set.
C13_MalformedRowDropped ==
  (/\ Returned
   /\ \E i \in 1..Len(results) : ~C13_WellFormed(results[i]))
    => /\ result.kind = "envelope"
       /\ result.query_info.mock_data # "True"
       /\ \A i \in 1..Len(results) :
            C13_WellFormed(results[i])
              => normalize_row(results[i]) \in Records(result)

\* The payloads a query text is compared across.
C14_Payloads ==
  {[borough |-> b, cuisine |-> c, min_grade |-> g, limit |-> l] :
     b \in RawBoroughs \cup {""}, c \in RawCuisines \cup {<<>>, <<"%">>},
     g \in RawGrades, l \in {NoneV, IntV(0), StrV(<<"7">>)}}

\* Which filters a payload carries (a value that is there and not empty).
C14_Present(p) ==
  <<TruthyName(p.borough), TruthyStr(p.cuisine), TruthyName(p.min_grade),
    p.limit.kind # "none">>

\* Which filters contribute a predicate.
C14_Effective(p) ==
  <<TruthyName(p.borough), TruthyStr(p.cuisine),
    TruthyName(p.min_grade) /\ StrUpper(p.min_grade) \in {"A", "B", "C"}>>

\* C14 as stated: the query text built for the payload at the backend is the
\* text built for every payload that carries the same filters, whatever
\* their values, and the limit is bound as the parameter @limit.
C14_TextByPresence ==
  pc = "backend" =>
    /\ \A other \in C14_Payloads :
         C14_Present(other) = C14_Present(payload)
           => _build_query_and_params(other).query
                = _build_query_and_params(payload).query
    /\ _build_query_and_params(payload).query.limit = "@limit"
    /\ _build_query_and_params(payload).params.limit
         = _coerce_limit(payload.limit)

\* C14 amended: the query text built for the payload at the backend is the
\* text built for every payload in which the same filters contribute a
\* predicate (borough and cuisine non-empty, min_grade one of A, B, C in
\* either case), whatever the values; the values are found in the bound
\* parameters only, and the limit is bound as the parameter @limit.
C14_TextByEffectiveFilters ==
  pc = "backend" =>
    /\ \A other \in C14_Payloads :
         C14_Effective(other) = C14_Effective(payload)
           => _build_query_and_params(other).query
                = _build_query_and_params(payload).query
    /\ _build_query_and_params(payload).query.limit = "@limit"
    /\ _build_query_and_params(payload).params.limit
         = _coerce_limit(payload.limit)
    /\ TruthyName(payload.borough) =>
         _build_query_and_params(payload).params.borough
           = StrUpper(payload.borough)
    /\ TruthyStr(payload.cuisine) =>
         _build_query_and_params(payload).params.cuisine
           = <<"%">> \o Upper(payload.cuisine) \o <<"%">>

\* A payload whose borough and cuisine are given is at the backend, and a
\* payload with another borough gets the same query text.
C14_Witness ==
  /\ pc = "backend"
  /\ payload.borough = "manhattan"
  /\ TruthyStr(payload.cuisine)
  /\ \E other \in C14_Payloads :
       /\ other.borough = "NARNIA"
       /\ C14_Effective(other) = C14_Effective(payload)
       /\ _build_query_and_params(other).params
            # _build_query_and_params(payload).params

\* What the handler answers when the warehouse returns `rows` for query q.
C15_Answer(rows, q) ==
  IF \E i \in 1..Len(rows) : row_raises(rows[i])
  THEN [status |-> 500]
  ELSE [status |-> 200, body |-> live_response(rows, q.applied)]

\* C15: a payload at the backend has one possible answer from the warehouse
\* as it stands: any two executions of its query against the unchanged table
\* give the same response, records in the same order.
C15_SameAnswerTwice ==
  (pc = "backend" /\ bq_client) =>
    LET q == _build_query_and_params(payload) IN
    \A rows1, rows2 \in run_query(q, Rows(table)) :
      C15_Answer(rows1, q) = C15_Answer(rows2, q)

\* The limit in force on the path that produced the envelope: the client's
\* slice bound on the client mock path, the coerced limit at the backend.
C16_EffectiveLimit ==
  IF path = "client_mock" THEN IntV(request.limit)
  ELSE IntV(_coerce_limit(payload.limit))

\* C16: the filters_applied of every envelope, returned to the client's
\* caller or sent by the backend, carries the borough, cuisine and min_grade
\* of the query and the limit in force, on each of the three paths.
C16_FiltersAppliedIsFilter ==
  /\ (Returned /\ result.kind = "envelope") =>
       /\ result.query_info.filters_applied.borough = request.borough
       /\ result.query_info.filters_applied.cuisine = request.cuisine
       /\ result.query_info.filters_applied.min_grade = request.min_grade
       /\ result.query_info.filters_applied.limit = C16_EffectiveLimit
  /\ (pc = "responded" /\ response.status = 200) =>
       /\ response.body.query_info.filters_applied.borough = payload.borough
       /\ response.body.query_info.filters_applied.cuisine = payload.cuisine
       /\ response.body.query_info.filters_applied.min_grade
            = payload.min_grade
       /\ response.body.query_info.filters_applied.limit = C16_EffectiveLimit

\* In a call of AgentClient.query_restaurants the POST is sent at most once
\* and a mock response is built at most once, a mock response is built only
\* after the POST was sent, and past the POST exactly one was sent.
C17_SingleAttempt ==
  request # NoRequest =>
    /\ attempts <= 1
    /\ mocks <= 1
    /\ mocks = 1 => attempts = 1
    /\ pc \in {"backend", "responded", "except", "done"} => attempts = 1
    /\ pc = "posting" => attempts = 0 /\ mocks = 0
    /\ path = "client_mock" => pc = "done" /\ mocks = 1

\* C17: no retries: at every moment of every call the POST was sent at most
\* once and a mock response built at most once and only after the POST, and
\* every call that reached the POST ends.
C17_NoRetries ==
  /\ []C17_SingleAttempt
  /\ (pc = "posting") ~> (pc = "done")

\* A call has returned the client's mock data after its one POST timed out.
C17_Witness ==
  /\ Returned
  /\ failure = "Timeout"
  /\ attempts = 1
  /\ mocks = 1
  /\ path = "client_mock"

\* The predicates of a WHERE list, as a set.
C18_Predicates(where) == {where[i] : i \in 1..Len(where)}

\* C18: for the payload at the backend, the WHERE list is the base predicate
\* followed, in this order and with nothing else, by the borough equality iff
\* a non-empty borough is given (bound to the upper-cased borough), the
\* cuisine LIKE iff a non-empty cuisine is given (bound to %UPPER(cuisine)%),
\* and the grade membership iff min_grade in either case is A, B or C (bound
\* to that grade's ladder); for any other grade there is no grade predicate
\* and no grade parameter.
C18_PredicateList ==
  pc = "backend" =>
    LET q == _build_query_and_params(payload)
        where == q.query.where
        g == StrUpper(payload.min_grade)
        all == <<"1=1", "UPPER(boro) = @borough",
                 "UPPER(cuisine_description) LIKE @cuisine",
                 "grade IN UNNEST(@grades)">>
    IN
    /\ where[1] = "1=1"
    /\ where = SelectSeq(all, LAMBDA t : t \in C18_Predicates(where))
    /\ "UPPER(boro) = @borough" \in C18_Predicates(where)
         <=> payload.borough \notin {"None", ""}
    /\ q.params.borough =
         (IF payload.borough \in {"None", ""} THEN "None"
          ELSE StrUpper(payload.borough))
    /\ "UPPER(cuisine_description) LIKE @cuisine" \in C18_Predicates(where)
         <=> payload.cuisine \notin {NoneStr, <<>>}
    /\ q.params.cuisine =
         (IF payload.cuisine \in {NoneStr, <<>>} THEN NoneStr
          ELSE <<"%">> \o Upper(payload.cuisine) \o <<"%">>)
    /\ "grade IN UNNEST(@grades)" \in C18_Predicates(where)
         <=> g \in {"A", "B", "C"}
    /\ q.params.grades =
         (CASE g = "A" -> <<"A">>
            [] g = "B" -> <<"A", "B">>
            [] g = "C" -> <<"A", "B", "C">>
            [] OTHER -> <<>>)

\* A payload with a lower-case borough, a cuisine and the grade Z is at the
\* backend: two predicates follow the base predicate, none for the grade.
C18_Witness ==
  /\ pc = "backend"
  /\ payload.borough = "manhattan"
  /\ payload.cuisine = <<"p">>
  /\ payload.min_grade = "Z"
  /\ Len(build_where(payload)) = 3
  /\ build_params(payload).borough = "MANHATTAN"

\* Position of a mock record in the mock dataset.
C19_Index(r) == CHOOSE k \in 1..Len(mock_restaurants) : mock_restaurants[k] = r

\* C19: the records of a client-side mock response are in the relative order
\* of the mock dataset and in descending order of inspection date, which is
\* the order the query built for the same request asks of the warehouse.
C19_MockOrderIsDatasetOrder ==
  (Returned /\ path = "client_mock") =>
    /\ \A i, j \in 1..Len(result.restaurants) :
         i < j =>
           /\ C19_Index(result.restaurants[i])
                < C19_Index(result.restaurants[j])
           /\ result.restaurants[i].inspection_date
                >= result.restaurants[j].inspection_date
    /\ _build_query_and_params(model_dump(request)).query.order_by
         = "inspection_date DESC"

\* A client-side mock response holding all three mock records.
C19_Witness ==
  /\ Returned
  /\ path = "client_mock"
  /\ Len(result.restaurants) = 3
  /\ result.restaurants[1].inspection_date
       > result.restaurants[3].inspection_date

====
